---- MODULE Spec2Model ----
(***************************************************************************)
(* Resilient acquisition layer of src/api/index.py: the RateLimiter, the   *)
(* CacheManager, the CircuitBreaker and the RequestQueue singletons, and   *)
(* the two scrape_vestiaire_data routines that sequence them around the    *)
(* fetch (_execute_vestiaire_scrape).                                      *)
(*                                                                         *)
(* Time is time.time() in whole seconds.  A thread is one caller: a        *)
(* request handler, or a client of a component's public methods.  Short    *)
(* critical sections (cache, limiter) are one step; a thread's steps are   *)
(* split where the code can block or run long: the breaker's lock, the     *)
(* rate limiter's sleep and the fetch.                                     *)
(***************************************************************************)
EXTENDS Integers, Sequences, FiniteSets

(* ------------------------------ bounds -------------------------------- *)
NThreads == 3
MaxCalls == 3
MaxClientCalls == 5
MaxTime == 125
MaxPage == 2
MaxQueueCalls == 4
MaxLimiterCalls == 4
MaxCeiling == 2
MaxLimiterTime == 60
MaxCacheCalls == 4
MaxCacheTime == 1800
MaxVintedPage == 5
PageSize == 1

(* ------------------------- program constants -------------------------- *)
failure_threshold == 3
recovery_timeout == 120
max_requests_per_minute == 20
min_limit == 5
window_seconds == 60
cache_duration == 900
max_concurrent == 2
SampleCount == 23
NoTime == -1
NoThread == 0

Threads == 1..NThreads

\* threading.Lock() is not reentrant: acquire blocks whenever the lock is
\* held, also when the holder is the calling thread.
Reentrant == FALSE

VARIABLES
    now,                \* time.time()
    state,              \* circuit_breaker.state
    failure_count,      \* circuit_breaker.failure_count
    last_failure_time,  \* circuit_breaker.last_failure_time (NoTime: None)
    lock_owner,         \* holder of circuit_breaker.lock (NoThread: free)
    max_requests,       \* rate_limiter.max_requests
    current_limit,      \* rate_limiter.current_limit
    requests,           \* rate_limiter.requests: identity -> timestamps
    cache,              \* cache_manager.cache: key -> [data, timestamp]
    hit_count,          \* cache_manager.hit_count
    miss_count,         \* cache_manager.miss_count
    active_requests,    \* request_queue.active_requests
    queue,              \* request_queue.queue
    request_func,       \* add_request's request_func in each thread
    pc,                 \* where each thread is
    op,                 \* the operation each thread is in
    req,                \* the request a thread is serving
    client_ip,          \* the address of the request's client
    wake_at,            \* end of the thread's time.sleep(wait_time)
    cached_result,      \* what cache_manager.get returned to the thread
    fn_out,             \* how fn ended in the thread's breaker call
    ret,                \* how the thread's last operation ended
    result,             \* what the thread's last scrape returned
    fetches,            \* fetches the thread's current scrape has started
    calls_made          \* operations started so far

breaker_vars == <<state, failure_count, last_failure_time, lock_owner>>
limiter_vars == <<max_requests, current_limit, requests>>
cache_vars == <<cache, hit_count, miss_count>>
gate_vars == <<active_requests, queue, request_func>>
thread_vars == <<pc, op, req, client_ip, wake_at, cached_result, fn_out, ret,
                 result, fetches>>
vars == <<now, breaker_vars, limiter_vars, cache_vars, gate_vars,
          thread_vars, calls_made>>

(* ------------------------------ values -------------------------------- *)
Max(a, b) == IF a >= b THEN a ELSE b
Min(a, b) == IF a <= b THEN a ELSE b

(* ------------------------------ strings -------------------------------- *)
\* A str is the sequence of its characters.  None is a value that is no str.
None == <<"<None>">>

DigitChars == <<"0", "1", "2", "3", "4", "5", "6", "7", "8", "9">>
IsDigit(c) == \E i \in 1..10 : DigitChars[i] = c
DigitValue(c) == (CHOOSE i \in 1..10 : DigitChars[i] = c) - 1

\* str(n) of an int n >= 0, as an f-string formats it.
RECURSIVE StrOfInt(_)
StrOfInt(n) ==
    IF n < 10 THEN <<DigitChars[n + 1]>>
              ELSE StrOfInt(n \div 10) \o <<DigitChars[(n % 10) + 1]>>

\* {v} in an f-string, v a str or None.
Formatted(v) == IF v = None THEN <<"N", "o", "n", "e">> ELSE v

\* The arguments of scrape_vestiaire_data; min_price, max_price default None.
Requests ==
    { [search_text |-> <<"b", "a", "g">>, page_number |-> p,
       items_per_page |-> PageSize, country |-> <<"u", "k">>,
       min_price |-> None, max_price |-> None] :
      p \in 1..MaxPage }

\* f"vestiaire_{search_text}_{page_number}_{items_per_page}_{country}_{min_price}_{max_price}"
cache_key(r) ==
    <<"v", "e", "s", "t", "i", "a", "i", "r", "e", "_">>
        \o r.search_text \o <<"_">> \o StrOfInt(r.page_number)
        \o <<"_">> \o StrOfInt(r.items_per_page) \o <<"_">> \o r.country
        \o <<"_">> \o Formatted(r.min_price)
        \o <<"_">> \o Formatted(r.max_price)

\* scrape_vinted_data's key:
\* f"{search_text}_{page_number}_{items_per_page}_{country}"
vinted_cache_key(r) ==
    r.search_text \o <<"_">> \o StrOfInt(r.page_number)
        \o <<"_">> \o StrOfInt(r.items_per_page) \o <<"_">> \o r.country

\* self.client_address[0] of the requests served.
Clients == {"10.0.0.1"}

\* What fn does in a breaker call: it raises, or it returns n (for the
\* fetch, the number of products parsed, at most items_per_page).
Raise == [ok |-> FALSE, n |-> 0]
Return(n) == [ok |-> TRUE, n |-> n]
Outcomes(t) ==
    {Raise} \cup
    { Return(n) : n \in 0..(IF op[t] = "scrape" THEN req[t].items_per_page ELSE 0) }

NoResult == [none |-> TRUE]
NoRequest == [none |-> TRUE]

\* _execute_vestiaire_scrape's return value for n parsed products.
ScrapeResult(r, n) ==
    [products |-> n, source |-> "scraped",
     pagination |->
        [current_page |-> r.page_number,
         total_pages |-> r.page_number + (IF n = r.items_per_page THEN 1 ELSE 0),
         has_more |-> (n = r.items_per_page),
         items_per_page |-> n,
         total_items |-> n]]

\* The fallback of the routine that uses circuit_breaker.call: the sample
\* products, on the requested page.
FallbackResult(r) ==
    [products |-> SampleCount, source |-> "sample",
     pagination |->
        [current_page |-> r.page_number, total_pages |-> 1, has_more |-> FALSE,
         items_per_page |-> SampleCount, total_items |-> SampleCount]]

\* The fallback of MyHandler.scrape_vestiaire_data: always page 1.
FallbackResultExecute(r) ==
    [products |-> SampleCount, source |-> "sample",
     pagination |->
        [current_page |-> 1, total_pages |-> 1, has_more |-> FALSE,
         items_per_page |-> SampleCount, total_items |-> SampleCount]]

(* --------------------------- CacheManager ------------------------------ *)
EmptyMap == [k \in {} |-> 0]

\* defaultdict(int)[k]
Count(d, k) == IF k \in DOMAIN d THEN d[k] ELSE 0
Incr(d, k) == [x \in DOMAIN d \cup {k} |-> IF x = k THEN Count(d, k) + 1 ELSE d[x]]

\* An entry that is still served when it is exactly cache_duration old.
CacheFreshInclusive(c, k) ==
    k \in DOMAIN c /\ now - c[k].timestamp <= cache_duration

\* CacheManager.get: the entry is served while time.time() - timestamp <
\* cache_duration.
CacheFresh(c, k) == k \in DOMAIN c /\ now - c[k].timestamp < cache_duration
CacheGetData(c, k) == IF CacheFresh(c, k) THEN c[k].data ELSE NoResult
CacheAfterGet(c, k) ==
    IF k \in DOMAIN c /\ ~CacheFresh(c, k)
        THEN [x \in DOMAIN c \ {k} |-> c[x]]
        ELSE c
\* A get that counts a miss only for a key without an entry, not for an
\* expired one.
MissesAfterGetAbsentOnly(c, k) ==
    IF k \in DOMAIN c THEN miss_count ELSE Incr(miss_count, k)

HitsAfterGet(c, k) == IF CacheFresh(c, k) THEN Incr(hit_count, k) ELSE hit_count
MissesAfterGet(c, k) == IF CacheFresh(c, k) THEN miss_count ELSE Incr(miss_count, k)

\* A set that keeps the entry a key already has (setdefault).
CacheSetIfAbsent(c, k, data) ==
    [x \in DOMAIN c \cup {k} |->
        IF x \in DOMAIN c THEN c[x] ELSE [data |-> data, timestamp |-> now]]

\* CacheManager.set
CacheSet(c, k, data) ==
    [x \in DOMAIN c \cup {k} |->
        IF x = k THEN [data |-> data, timestamp |-> now] ELSE c[x]]

(* ---------------------------- RateLimiter ------------------------------ *)
\* A window that still counts a request made exactly a minute ago.
PrunedInclusive(ts) == SelectSeq(ts, LAMBDA x : now - x <= window_seconds)

\* The identity's timestamps younger than a minute.
Pruned(ts) == SelectSeq(ts, LAMBDA x : now - x < window_seconds)
Window(id) == IF id \in DOMAIN requests THEN requests[id] ELSE <<>>
IsAllowed(id) == Len(Pruned(Window(id))) < current_limit
RequestsAfterIsAllowed(id) ==
    [x \in DOMAIN requests \cup {id} |->
        IF x = id
            THEN IF IsAllowed(id) THEN Append(Pruned(Window(id)), now)
                                  ELSE Pruned(Window(id))
            ELSE requests[x]]

RECURSIVE SeqMin(_)
SeqMin(s) == IF Len(s) = 1 THEN s[1] ELSE Min(s[1], SeqMin(Tail(s)))

\* RateLimiter.wait_time over the timestamps ts of the identity.
WaitTime(ts) == IF ts = <<>> THEN 0 ELSE Max(0, SeqMin(ts) + window_seconds - now)

\* An adaptation that raises the limit from 80 percent on (>= for >).
AdaptRateFromEighty(limit, pct) ==
    IF pct < 50 THEN Max(min_limit, (limit * 2) \div 3)
    ELSE IF pct >= 80 THEN Min(max_requests, (limit * 6) \div 5)
    ELSE limit

\* An adaptation that backs off without the floor of 5 (max(1, ...)).
AdaptRateFloorless(limit, pct) ==
    IF pct < 50 THEN Max(1, (limit * 2) \div 3)
    ELSE IF pct > 80 THEN Min(max_requests, (limit * 6) \div 5)
    ELSE limit

\* RateLimiter.adapt_rate; the success rate is given in percent.
\* int(current_limit / 1.5) and int(current_limit * 1.2) in integers.
AdaptRate(limit, pct) ==
    IF pct < 50 THEN Max(min_limit, (limit * 2) \div 3)
    ELSE IF pct > 80 THEN Min(max_requests, (limit * 6) \div 5)
    ELSE limit

(* --------------------------- CircuitBreaker ---------------------------- *)
\* A breaker whose lock excludes nobody.
LockIgnored(t) == TRUE

\* `with self.lock`
LockFree(t) == lock_owner = NoThread \/ (Reentrant /\ lock_owner = t)

\* A timeout that counts as elapsed at recovery_timeout already (>= for >).
RecoveryElapsedAtTimeout == now - last_failure_time >= recovery_timeout

\* time.time() - self.last_failure_time > self.recovery_timeout
RecoveryElapsed == now - last_failure_time > recovery_timeout

\* A call that leaves an OPEN breaker OPEN when it starts the trial.
AdmittedStaysOpen == state

\* The state after call's check of an OPEN breaker whose timeout has elapsed.
Admitted == IF state = "OPEN" THEN "HALF_OPEN" ELSE state

\* A record_failure that opens the breaker only above the threshold (> for
\* >=).
RecordFailureBodyAbove ==
    /\ failure_count' = failure_count + 1
    /\ last_failure_time' = now
    /\ state' = IF failure_count + 1 > failure_threshold THEN "OPEN" ELSE state

\* CircuitBreaker.record_failure, under the lock.
RecordFailureBody ==
    /\ failure_count' = failure_count + 1
    /\ last_failure_time' = now
    /\ state' = IF failure_count + 1 >= failure_threshold THEN "OPEN" ELSE state

\* A reset that closes the breaker and keeps the count.
ResetBodyKeepsCount ==
    /\ state' = "CLOSED"
    /\ UNCHANGED <<failure_count, last_failure_time>>

\* CircuitBreaker.reset, under the lock.
ResetBody ==
    /\ failure_count' = 0
    /\ state' = "CLOSED"
    /\ UNCHANGED last_failure_time

(* ------------------------------- Init ---------------------------------- *)
\* The state after the module's globals are constructed, the rate limiter
\* with the given max_requests_per_minute.
Start(ceiling) ==
    /\ now = 0
    /\ state = "CLOSED"
    /\ failure_count = 0
    /\ last_failure_time = NoTime
    /\ lock_owner = NoThread
    /\ max_requests = ceiling
    /\ current_limit = ceiling
    /\ requests = EmptyMap
    /\ cache = EmptyMap
    /\ hit_count = EmptyMap
    /\ miss_count = EmptyMap
    /\ active_requests = 0
    /\ queue = <<>>
    /\ request_func = [t \in Threads |-> NoThread]
    /\ pc = [t \in Threads |-> "idle"]
    /\ op = [t \in Threads |-> "none"]
    /\ req = [t \in Threads |-> NoRequest]
    /\ client_ip = [t \in Threads |-> "unknown"]
    /\ wake_at = [t \in Threads |-> 0]
    /\ cached_result = [t \in Threads |-> NoResult]
    /\ fn_out = [t \in Threads |-> "none"]
    /\ ret = [t \in Threads |-> "none"]
    /\ result = [t \in Threads |-> NoResult]
    /\ fetches = [t \in Threads |-> 0]
    /\ calls_made = 0

Init == Start(max_requests_per_minute)

\* A thread starts operation o (on request r).  The threads of the server are
\* interchangeable: the next operation goes to the first idle one.
Begin(t, o, r, limit) ==
    /\ pc[t] = "idle"
    /\ \A u \in Threads : u < t => pc[u] # "idle"
    /\ calls_made < limit
    /\ calls_made' = calls_made + 1
    /\ op' = [op EXCEPT ![t] = o]
    /\ req' = [req EXCEPT ![t] = r]
    /\ fn_out' = [fn_out EXCEPT ![t] = "none"]
    /\ fetches' = [fetches EXCEPT ![t] = 0]

(* ---------------------- scrape_vestiaire_data -------------------------- *)
\* What follows circuit_breaker.call in the caller.  In the scrape routine:
\* the result is cached and the limiter adapted (1.0), or the except clause
\* adapts the limiter (0.0), builds the fallback, caches it and returns it.
\* A direct client of call gets fn's value or the exception.
Finish(t, how, n) ==
    /\ pc' = [pc EXCEPT ![t] = "idle"]
    /\ IF op[t] = "scrape"
         THEN LET r == req[t]
                  res == IF how = "returned" THEN ScrapeResult(r, n)
                                             ELSE FallbackResult(r)
              IN  /\ cache' = CacheSet(cache, cache_key(r), res)
                  /\ current_limit' =
                        AdaptRate(current_limit, IF how = "returned" THEN 100 ELSE 0)
                  /\ result' = [result EXCEPT ![t] = res]
                  /\ ret' = [ret EXCEPT ![t] = "returned"]
                  /\ UNCHANGED <<hit_count, miss_count, requests, max_requests>>
         ELSE /\ ret' = [ret EXCEPT ![t] = how]
              /\ UNCHANGED <<result, cache_vars, limiter_vars>>

\* MyHandler.scrape_vestiaire_data.  CircuitBreaker has no attribute
\* `execute`: on a miss the try block raises AttributeError before the fetch
\* is reached, and the except clause returns the fallback.
ScrapeExecute(t, r) ==
    /\ Begin(t, "scrape_execute", r, MaxCalls)
    /\ UNCHANGED client_ip
    /\ LET k == cache_key(r)
       IN  /\ cached_result' = [cached_result EXCEPT ![t] = CacheGetData(cache, k)]
           /\ hit_count' = HitsAfterGet(cache, k)
           /\ miss_count' = MissesAfterGet(cache, k)
           /\ IF CacheFresh(cache, k)
                THEN /\ result' = [result EXCEPT ![t] = CacheGetData(cache, k)]
                     /\ UNCHANGED <<cache, current_limit>>
                ELSE /\ current_limit' = AdaptRate(current_limit, 0)
                     /\ cache' = CacheSet(CacheAfterGet(cache, k), k,
                                          FallbackResultExecute(r))
                     /\ result' = [result EXCEPT ![t] = FallbackResultExecute(r)]
    /\ ret' = [ret EXCEPT ![t] = "returned"]
    /\ UNCHANGED <<now, breaker_vars, max_requests, requests, gate_vars, pc,
                   wake_at>>

\* do_GET, /vestiaire: send_json_response(data['products'], data['pagination'])
\* with no error argument, so 'error' is None in the response.
Response(data) ==
    [success |-> TRUE, data |-> data.products, count |-> data.products,
     pagination |-> data.pagination, error |-> "None"]

\* A routine that asks the rate limiter before it looks into the cache.
RateLimitedAlways(hit) == TRUE

\* The rate limiting check comes after `return cached_result`: it is reached
\* only when the cache had nothing to serve.
RateLimited(hit) == ~hit

\* scrape_vestiaire_data with circuit_breaker.call, up to the call: the cache
\* check, then the rate limiter (a rejected request sleeps wait_time and
\* goes on without asking again).
ScrapeCallStart(t, r, id) ==
    /\ Begin(t, "scrape", r, MaxCalls)
    /\ client_ip' = [client_ip EXCEPT ![t] = id]
    /\ LET k == cache_key(r)
       IN  /\ cached_result' = [cached_result EXCEPT ![t] = CacheGetData(cache, k)]
           /\ hit_count' = HitsAfterGet(cache, k)
           /\ miss_count' = MissesAfterGet(cache, k)
           /\ cache' = CacheAfterGet(cache, k)
           /\ requests' = IF RateLimited(CacheFresh(cache, k))
                              THEN RequestsAfterIsAllowed(id)
                              ELSE requests
           /\ IF CacheFresh(cache, k)
                THEN /\ result' = [result EXCEPT ![t] = CacheGetData(cache, k)]
                     /\ ret' = [ret EXCEPT ![t] = "returned"]
                     /\ UNCHANGED <<pc, wake_at>>
                ELSE /\ wake_at' = [wake_at EXCEPT ![t] =
                            IF IsAllowed(id) THEN 0
                            ELSE now + WaitTime(Pruned(Window(id)))]
                     /\ pc' = [pc EXCEPT ![t] = "cb_call"]
                     /\ result' = [result EXCEPT ![t] = NoResult]
                     /\ ret' = [ret EXCEPT ![t] = "none"]
    /\ UNCHANGED <<now, breaker_vars, max_requests, current_limit, gate_vars>>

(* ------------------------ CircuitBreaker.call -------------------------- *)
\* A client calls circuit_breaker.call(fn).
CallStart(t) ==
    /\ Begin(t, "call", NoRequest, MaxClientCalls)
    /\ pc' = [pc EXCEPT ![t] = "cb_call"]
    /\ wake_at' = [wake_at EXCEPT ![t] = 0]
    /\ ret' = [ret EXCEPT ![t] = "none"]
    /\ cached_result' = [cached_result EXCEPT ![t] = NoResult]
    /\ UNCHANGED <<now, breaker_vars, limiter_vars, cache_vars, gate_vars,
                   client_ip, result>>

\* call takes the lock and checks the state: an OPEN breaker whose timeout
\* has not elapsed raises; otherwise fn starts, the lock still held.
CallEnter(t) ==
    /\ pc[t] = "cb_call"
    /\ now >= wake_at[t]
    /\ LockFree(t)
    /\ IF state = "OPEN" /\ ~RecoveryElapsed
         THEN /\ Finish(t, "CircuitOpen", 0)
              /\ UNCHANGED <<breaker_vars, fetches>>
         ELSE /\ state' = Admitted
              /\ lock_owner' = t
              /\ pc' = [pc EXCEPT ![t] = "fn"]
              /\ fetches' = [fetches EXCEPT ![t] =
                                IF op[t] = "scrape" THEN @ + 1 ELSE @]
              /\ UNCHANGED <<failure_count, last_failure_time, ret, result,
                             cache_vars, limiter_vars>>
    /\ UNCHANGED <<now, gate_vars, op, req, client_ip, wake_at, cached_result,
                   fn_out, calls_made>>

\* fn ends; call then calls self.reset() or self.record_failure(), each of
\* which takes self.lock again; with the lock taken they run, call leaves its
\* `with` block and the caller goes on.  While the lock is held the thread
\* waits in reset() or record_failure().
FnDone(t, out) ==
    /\ pc[t] = "fn"
    /\ out \in Outcomes(t)
    /\ fn_out' = [fn_out EXCEPT ![t] = IF out.ok THEN "ok" ELSE "raise"]
    /\ IF LockFree(t)
         THEN /\ IF out.ok THEN ResetBody ELSE RecordFailureBody
              /\ lock_owner' = NoThread
              /\ Finish(t, IF out.ok THEN "returned" ELSE "raised", out.n)
         ELSE /\ pc' = [pc EXCEPT ![t] =
                            IF out.ok THEN "cb_reset" ELSE "cb_record_failure"]
              /\ UNCHANGED <<breaker_vars, ret, result, cache_vars, limiter_vars>>
    /\ UNCHANGED <<now, gate_vars, op, req, client_ip, wake_at, cached_result,
                   fetches, calls_made>>

\* A client calls circuit_breaker.record_failure().
RecordFailure(t) ==
    /\ Begin(t, "record_failure", NoRequest, MaxClientCalls)
    /\ LockFree(t)
    /\ RecordFailureBody
    /\ ret' = [ret EXCEPT ![t] = "returned"]
    /\ cached_result' = [cached_result EXCEPT ![t] = NoResult]
    /\ UNCHANGED <<now, lock_owner, limiter_vars, cache_vars, gate_vars,
                   pc, client_ip, wake_at, result>>

\* A client calls circuit_breaker.reset().
Reset(t) ==
    /\ Begin(t, "reset", NoRequest, MaxClientCalls)
    /\ LockFree(t)
    /\ ResetBody
    /\ ret' = [ret EXCEPT ![t] = "returned"]
    /\ cached_result' = [cached_result EXCEPT ![t] = NoResult]
    /\ UNCHANGED <<now, lock_owner, limiter_vars, cache_vars, gate_vars,
                   pc, client_ip, wake_at, result>>

(* --------------------------- /cache/clear ------------------------------ *)
\* do_GET, /cache/clear: clear the cache, put the limit back to the ceiling,
\* then reset the breaker.
MaintStart(t) ==
    /\ Begin(t, "cache_clear", NoRequest, MaxCalls)
    /\ cache' = EmptyMap
    /\ hit_count' = EmptyMap
    /\ miss_count' = EmptyMap
    /\ current_limit' = max_requests
    /\ pc' = [pc EXCEPT ![t] = "maint_reset"]
    /\ ret' = [ret EXCEPT ![t] = "none"]
    /\ cached_result' = [cached_result EXCEPT ![t] = NoResult]
    /\ UNCHANGED <<now, breaker_vars, max_requests, requests, gate_vars,
                   client_ip, wake_at, result>>

MaintReset(t) ==
    /\ pc[t] = "maint_reset"
    /\ LockFree(t)
    /\ ResetBody
    /\ pc' = [pc EXCEPT ![t] = "idle"]
    /\ ret' = [ret EXCEPT ![t] = "returned"]
    /\ UNCHANGED <<now, lock_owner, limiter_vars, cache_vars, gate_vars,
                   op, req, client_ip, wake_at, cached_result, fn_out, result,
                   fetches, calls_made>>

(* ------------------------------ /health ------------------------------- *)
\* sum(d.values())
RECURSIVE SumValues(_)
SumValues(d) ==
    IF DOMAIN d = {} THEN 0
    ELSE LET k == CHOOSE x \in DOMAIN d : TRUE
         IN  d[k] + SumValues([x \in DOMAIN d \ {k} |-> d[x]])

\* CacheManager.get_cache_stats; hit_rate in thousandths.
GetCacheStats(c, h, m) ==
    LET total_hits == SumValues(h)
        total_misses == SumValues(m)
        total_requests == total_hits + total_misses
    IN  [hit_rate |-> IF total_requests > 0
                        THEN (total_hits * 1000) \div total_requests ELSE 0,
         total_hits |-> total_hits,
         total_misses |-> total_misses,
         cached_items |-> Cardinality(DOMAIN c)]

\* health_data, as far as it shows the three components.
HealthData ==
    [status |-> "healthy",
     timestamp |-> now,
     cache_stats |-> GetCacheStats(cache, hit_count, miss_count),
     rate_limiter |-> [current_limit |-> current_limit,
                       max_limit |-> max_requests],
     circuit_breaker |-> [state |-> state,
                          failure_count |-> failure_count,
                          failure_threshold |-> failure_threshold]]

\* A snapshot that counts itself as a miss of the cache.
HealthCounted(t) ==
    /\ Begin(t, "health", NoRequest, MaxCalls)
    /\ result' = [result EXCEPT ![t] = HealthData]
    /\ ret' = [ret EXCEPT ![t] = "returned"]
    /\ cached_result' = [cached_result EXCEPT ![t] = NoResult]
    /\ miss_count' = Incr(miss_count, <<"h", "e", "a", "l", "t", "h">>)
    /\ UNCHANGED <<now, breaker_vars, limiter_vars, cache, hit_count,
                   gate_vars, pc, client_ip, wake_at>>

\* do_GET, /health: the snapshot is built and sent.
Health(t) ==
    /\ Begin(t, "health", NoRequest, MaxCalls)
    /\ result' = [result EXCEPT ![t] = HealthData]
    /\ ret' = [ret EXCEPT ![t] = "returned"]
    /\ cached_result' = [cached_result EXCEPT ![t] = NoResult]
    /\ UNCHANGED <<now, breaker_vars, limiter_vars, cache_vars, gate_vars, pc,
                   client_ip, wake_at>>

(* ------------------------- scrape_vinted_data -------------------------- *)
\* price_str.replace(' ', '')
StripSpaces(s) == SelectSeq(s, LAMBDA c : c # " ")

\* The length of the run of digits of s that starts at position i.
RECURSIVE DigitRun(_, _)
DigitRun(s, i) ==
    IF i <= Len(s) /\ IsDigit(s[i]) THEN 1 + DigitRun(s, i + 1) ELSE 0

\* Where re.search finds the first digit of s (0: no match).
FirstDigit(s) ==
    IF \E i \in 1..Len(s) : IsDigit(s[i])
        THEN CHOOSE i \in 1..Len(s) :
                IsDigit(s[i]) /\ \A j \in 1..(i - 1) : ~IsDigit(s[j])
        ELSE 0

\* int(s) of a str of digits.
RECURSIVE IntOfStr(_)
IntOfStr(s) ==
    IF s = <<>> THEN 0
    ELSE IntOfStr(SubSeq(s, 1, Len(s) - 1)) * 10 + DigitValue(s[Len(s)])

\* Floats are kept in thousandths.  The value of the decimal that
\* r'(\d+[.,]?\d*)' matches in s from position i, its ',' read as '.'.
Thousand == 1000
DecimalAt(s, i) ==
    LET n == DigitRun(s, i)
        j == i + n
        m == IF j <= Len(s) /\ s[j] \in {".", ","} THEN DigitRun(s, j + 1) ELSE 0
        frac == SubSeq(SubSeq(s, j + 1, j + m) \o <<"0", "0", "0">>, 1, 3)
    IN  IntOfStr(SubSeq(s, i, j - 1)) * Thousand + IntOfStr(frac)

\* price_value of an item's 'Price', or NoPrice when the pattern finds no
\* number in it.
NoPrice == -1
PriceValue(price_str) ==
    LET s == StripSpaces(price_str)
    IN  IF FirstDigit(s) = 0 THEN NoPrice ELSE DecimalAt(s, FirstDigit(s))

\* float(min_price), float(max_price) of a query parameter.
FloatOf(v) == DecimalAt(v, 1)

\* The price filtering of scrape_vinted_data.
PriceFilter(all_data, min_price, max_price) ==
    IF min_price = None /\ max_price = None THEN all_data
    ELSE SelectSeq(all_data, LAMBDA item :
            /\ PriceValue(item.Price) # NoPrice
            /\ (min_price # None => PriceValue(item.Price) >= FloatOf(min_price))
            /\ (max_price # None => PriceValue(item.Price) <= FloatOf(max_price)))

\* stable_total
StableTotal(total_items) ==
    IF total_items >= 90 /\ total_items <= 100 THEN 96
    ELSE IF total_items >= 85 /\ total_items < 90 THEN 90
    ELSE total_items

\* all_data[start_index:end_index]
Slice(all_data, start_index, end_index) ==
    SubSeq(all_data, start_index + 1, Min(end_index, Len(all_data)))

\* What scrape_vinted_data makes of the items it extracted.  MyHandler has
\* no get_sample_data: with an empty page_data the dict display raises
\* AttributeError.
ScrapeVinted(extracted, r) ==
    LET all_data == PriceFilter(extracted, r.min_price, r.max_price)
        stable_total == StableTotal(Len(all_data))
        start_index == (r.page_number - 1) * r.items_per_page
        end_index == start_index + r.items_per_page
        page_data == Slice(all_data, start_index, end_index)
    IN  IF page_data = <<>>
            THEN [raised |-> "AttributeError"]
            ELSE [products |-> page_data,
                  pagination |->
                    [current_page |-> r.page_number,
                     items_per_page |-> r.items_per_page,
                     total_items |-> stable_total,
                     total_pages |->
                        (stable_total + r.items_per_page - 1) \div r.items_per_page,
                     has_more |-> end_index < stable_total,
                     start_index |-> start_index,
                     end_index |-> Min(end_index, stable_total)]]

\* The products _execute_vestiaire_scrape makes of the product elements of
\* a page it fetched: of the first items_per_page elements, those with a
\* title and a price.  min_price and max_price are not looked at.
ExecuteVestiaireScrape(elements, r) ==
    LET products ==
            SelectSeq(SubSeq(elements, 1, Min(r.items_per_page, Len(elements))),
                      LAMBDA e : e.title /\ e.Price # None)
    IN  [products |-> products,
         pagination |-> ScrapeResult(r, Len(products)).pagination]

\* The requests and the extracted items the scrapers are tried on.
ScrapeRequests ==
    { [search_text |-> <<"b", "a", "g">>, page_number |-> p,
       items_per_page |-> n, country |-> <<"u", "k">>,
       min_price |-> lo, max_price |-> hi] :
      p \in 1..MaxVintedPage, n \in {1, 2, 50},
      lo \in {None, <<"1", "0", "0">>}, hi \in {None, <<"2", "0", "0">>} }

Item(i, price) == [id |-> i, title |-> TRUE, Price |-> price]
Uniform(n) == [i \in 1..n |-> Item(i, <<"1", "5", "0", "$">>)]
Extracted ==
    { Uniform(n) : n \in {0, 1, 2, 3, 84, 85, 89, 90, 92, 93, 96, 100, 101, 230} }
    \cup { <<Item(1, <<"8", "0", "$">>), Item(2, <<"1", "2", "0", "$">>),
            Item(3, <<"2", "5", "0", "$">>)>>,
           <<Item(1, <<"1", "0", "0", "$">>), Item(2, <<"N", "/", "A">>),
            Item(3, <<"1", "9", "9", ",", "9", "9", " ", "$">>),
            Item(4, <<"2", "0", "0", ".", "5", "$">>)>> }
Elements ==
    { e \in Extracted : Len(e) <= 4 }
    \cup { <<[id |-> 1, title |-> FALSE, Price |-> <<"1", "2", "0">>],
             [id |-> 2, title |-> TRUE, Price |-> None],
             Item(3, <<"1", "5", "0">>)>> }

\* The requests whose keys are compared: search texts and price bounds that
\* hold the delimiter or spell None.
KeyTail == <<"_", "1", "_">> \o StrOfInt(PageSize) \o <<"_", "u">>
KeyRequests ==
    { [search_text |-> s, page_number |-> p, items_per_page |-> PageSize,
       country |-> c, min_price |-> lo, max_price |-> None] :
      s \in {<<"a">>, <<"a">> \o KeyTail}, p \in 1..MaxPage,
      c \in {<<"u">>, <<"u">> \o KeyTail},
      lo \in {None, <<"N", "o", "n", "e">>, <<"1">>} }

\* The work a thread has in hand when the scrapers' computations begin: the
\* request, and what was extracted from the pages fetched for it.
NoJob == [op |-> "none", req |-> NoRequest, extracted |-> <<>>]
Job(o, r, x) == [op |-> o, req |-> r, extracted |-> x]
OneJob(j) == [t \in Threads |-> IF t = 1 THEN j ELSE NoJob]
TwoJobs(j, k) == [t \in Threads |-> IF t = 1 THEN j ELSE IF t = 2 THEN k ELSE NoJob]
ScrapeJobs ==
    { OneJob(Job("scrape_vinted", r, x)) : r \in ScrapeRequests, x \in Extracted }
    \cup { OneJob(Job("execute_vestiaire_scrape", r, x)) :
            r \in ScrapeRequests, x \in Elements }
    \cup { TwoJobs(Job(o, r, <<>>), Job(o, q, <<>>)) :
            r \in KeyRequests, q \in KeyRequests,
            o \in {"cache_key", "vinted_cache_key"} }

InitScrape ==
    \E jobs \in ScrapeJobs :
        /\ now = 0
        /\ state = "CLOSED"
        /\ failure_count = 0
        /\ last_failure_time = NoTime
        /\ lock_owner = NoThread
        /\ max_requests = max_requests_per_minute
        /\ current_limit = max_requests_per_minute
        /\ requests = EmptyMap
        /\ cache = EmptyMap
        /\ hit_count = EmptyMap
        /\ miss_count = EmptyMap
        /\ active_requests = 0
        /\ queue = <<>>
        /\ request_func = [t \in Threads |-> NoThread]
        /\ pc = [t \in Threads |->
                    IF jobs[t].op = "none" THEN "idle" ELSE "extracted"]
        /\ op = [t \in Threads |-> jobs[t].op]
        /\ req = [t \in Threads |-> jobs[t].req]
        /\ client_ip = [t \in Threads |-> "unknown"]
        /\ wake_at = [t \in Threads |-> 0]
        /\ cached_result = [t \in Threads |-> NoResult]
        /\ fn_out = [t \in Threads |-> "none"]
        /\ ret = [t \in Threads |-> "none"]
        /\ result = [t \in Threads |->
                        IF jobs[t].op = "none" THEN NoResult
                        ELSE [extracted |-> jobs[t].extracted]]
        /\ fetches = [t \in Threads |-> 0]
        /\ calls_made = Cardinality({t \in Threads : jobs[t].op # "none"})

\* A thread ends its computation with value out (a raise when out says so).
Computed(t, out) ==
    /\ pc[t] = "extracted"
    /\ pc' = [pc EXCEPT ![t] = "idle"]
    /\ result' = [result EXCEPT ![t] =
                    [extracted |-> result[t].extracted, out |-> out]]
    /\ ret' = [ret EXCEPT ![t] =
                    IF "raised" \in DOMAIN out THEN "raised" ELSE "returned"]
    /\ UNCHANGED <<now, breaker_vars, limiter_vars, cache_vars, gate_vars, op,
                   req, client_ip, wake_at, cached_result, fn_out, fetches,
                   calls_made>>

\* scrape_vinted_data from the price filtering on.
ScrapeVintedData(t) ==
    /\ op[t] = "scrape_vinted"
    /\ Computed(t, ScrapeVinted(result[t].extracted, req[t]))

\* _execute_vestiaire_scrape on a fetched page (status 200).
ExecuteVestiaireScrapeCall(t) ==
    /\ op[t] = "execute_vestiaire_scrape"
    /\ Computed(t, ExecuteVestiaireScrape(result[t].extracted, req[t]))

\* cache_key = f"vestiaire_..." of scrape_vestiaire_data.
CacheKeyCall(t) ==
    /\ op[t] = "cache_key"
    /\ Computed(t, [key |-> cache_key(req[t])])

\* cache_key = f"..." of scrape_vinted_data.
VintedCacheKeyCall(t) ==
    /\ op[t] = "vinted_cache_key"
    /\ Computed(t, [key |-> vinted_cache_key(req[t])])

(* ------------------- clients of the RateLimiter ------------------------ *)
\* RateLimiter(max_requests_per_minute=c): the ceilings a limiter is built
\* with, the program's own among them.
Ceilings == {max_requests_per_minute} \cup (1..MaxCeiling)

\* The identities asking, and the success rates (in percent) reported.
Identities == {"10.0.0.1", "10.0.0.2"}
Rates == {0, 49, 50, 80, 81, 100}

InitLimiter == \E c \in Ceilings : Start(c)

\* A client calls rate_limiter.is_allowed(id).
IsAllowedCall(t, id) ==
    /\ Begin(t, "is_allowed", NoRequest, MaxLimiterCalls)
    /\ client_ip' = [client_ip EXCEPT ![t] = id]
    /\ requests' = RequestsAfterIsAllowed(id)
    /\ ret' = [ret EXCEPT ![t] = IF IsAllowed(id) THEN "True" ELSE "False"]
    /\ cached_result' = [cached_result EXCEPT ![t] = NoResult]
    /\ UNCHANGED <<now, breaker_vars, max_requests, current_limit, cache_vars,
                   gate_vars, pc, wake_at, result>>

\* A client calls rate_limiter.adapt_rate(pct / 100).
AdaptRateCall(t, pct) ==
    /\ Begin(t, "adapt_rate", NoRequest, MaxLimiterCalls)
    /\ current_limit' = AdaptRate(current_limit, pct)
    /\ result' = [result EXCEPT ![t] = [success_rate |-> pct]]
    /\ ret' = [ret EXCEPT ![t] = "returned"]
    /\ cached_result' = [cached_result EXCEPT ![t] = NoResult]
    /\ UNCHANGED <<now, breaker_vars, max_requests, requests, cache_vars,
                   gate_vars, pc, client_ip, wake_at>>

(* ------------------- clients of the CacheManager ----------------------- *)
\* The keys and the values the cache's clients use: those of the requests
\* for the first two pages.
Keys == {cache_key(r) : r \in {q \in Requests : q.page_number <= 2}}
Values == {ScrapeResult(r, 0) : r \in {q \in Requests : q.page_number <= 2}}

\* A client calls cache_manager.get(k).
CacheGetCall(t, k) ==
    /\ Begin(t, "cache_get", NoRequest, MaxCacheCalls)
    /\ cached_result' = [cached_result EXCEPT ![t] = CacheGetData(cache, k)]
    /\ cache' = CacheAfterGet(cache, k)
    /\ hit_count' = HitsAfterGet(cache, k)
    /\ miss_count' = MissesAfterGet(cache, k)
    /\ result' = [result EXCEPT ![t] = [key |-> k]]
    /\ ret' = [ret EXCEPT ![t] = "returned"]
    /\ UNCHANGED <<now, breaker_vars, limiter_vars, gate_vars, pc, client_ip,
                   wake_at>>

\* A client calls cache_manager.set(k, v).
CacheSetCall(t, k, v) ==
    /\ Begin(t, "cache_set", NoRequest, MaxCacheCalls)
    /\ cache' = CacheSet(cache, k, v)
    /\ result' = [result EXCEPT ![t] = [key |-> k, value |-> v]]
    /\ ret' = [ret EXCEPT ![t] = "returned"]
    /\ cached_result' = [cached_result EXCEPT ![t] = NoResult]
    /\ UNCHANGED <<now, breaker_vars, limiter_vars, hit_count, miss_count,
                   gate_vars, pc, client_ip, wake_at>>

\* A client calls cache_manager.get_cache_stats().
GetCacheStatsCall(t) ==
    /\ Begin(t, "get_cache_stats", NoRequest, MaxCacheCalls)
    /\ result' = [result EXCEPT ![t] = GetCacheStats(cache, hit_count, miss_count)]
    /\ ret' = [ret EXCEPT ![t] = "returned"]
    /\ cached_result' = [cached_result EXCEPT ![t] = NoResult]
    /\ UNCHANGED <<now, breaker_vars, limiter_vars, cache_vars, gate_vars, pc,
                   client_ip, wake_at>>

\* A client calls cache_manager.clear().
CacheClearCall(t) ==
    /\ Begin(t, "cache_clear_call", NoRequest, MaxCacheCalls)
    /\ cache' = EmptyMap
    /\ hit_count' = EmptyMap
    /\ miss_count' = EmptyMap
    /\ ret' = [ret EXCEPT ![t] = "returned"]
    /\ cached_result' = [cached_result EXCEPT ![t] = NoResult]
    /\ UNCHANGED <<now, breaker_vars, limiter_vars, gate_vars, pc, client_ip,
                   wake_at, result>>

(* ---------------------------- RequestQueue ----------------------------- *)
\* A caller's request function is named by the caller's thread.
\* The threads in self.condition.wait() that no notify() has woken yet.
Waiting == {u \in Threads : pc[u] = "q_wait"}

\* A notify() that wakes nobody.
NotifiableNobody == {NoThread}

\* self.condition.notify() wakes one waiting thread if there is any (w, or
\* NoThread); the woken thread goes on when it has the lock again.
Notifiable == IF Waiting = {} THEN {NoThread} ELSE Waiting
Notify(p, w) == IF w = NoThread THEN p ELSE [p EXCEPT ![w] = "q_woken"]

\* A release that is skipped when the request function raises (no finally).
SlotsAfterReturn(out) == IF out.ok THEN active_requests - 1 ELSE active_requests

\* finally: self.active_requests -= 1, however request_func ended.
SlotsAfterRelease(out) == active_requests - 1

\* `while self.active_requests >= self.max_concurrent: self.condition.wait()`,
\* then the slot is taken and the head of the queue popped; q is the queue
\* and p the threads' positions when thread t has the lock.
TakeSlotOrWait(t, q, p) ==
    IF active_requests >= max_concurrent
        THEN /\ pc' = [p EXCEPT ![t] = "q_wait"]
             /\ queue' = q
             /\ UNCHANGED <<active_requests, request_func>>
        ELSE /\ pc' = [p EXCEPT ![t] = "q_run"]
             /\ active_requests' = active_requests + 1
             /\ request_func' = [request_func EXCEPT ![t] = Head(q)]
             /\ queue' = Tail(q)

\* add_request(request_func), up to the start of request_func or the wait.
AddRequest(t, w) ==
    /\ Begin(t, "add_request", NoRequest, MaxQueueCalls)
    /\ w \in Notifiable
    /\ TakeSlotOrWait(t, Append(queue, t), Notify(pc, w))
    /\ ret' = [ret EXCEPT ![t] = "none"]
    /\ cached_result' = [cached_result EXCEPT ![t] = NoResult]
    /\ UNCHANGED <<now, breaker_vars, limiter_vars, cache_vars, client_ip,
                   wake_at, result>>

\* A notified thread has the lock again and tests the loop condition.
WakeUp(t) ==
    /\ pc[t] = "q_woken"
    /\ TakeSlotOrWait(t, queue, pc)
    /\ UNCHANGED <<now, breaker_vars, limiter_vars, cache_vars, op, req,
                   client_ip, wake_at, cached_result, fn_out, ret, result,
                   fetches, calls_made>>

\* request_func() returns or raises; the finally block gives the slot back
\* and notifies, and add_request returns the value or lets the exception go.
RunDone(t, out, w) ==
    /\ pc[t] = "q_run"
    /\ w \in Notifiable
    /\ active_requests' = SlotsAfterRelease(out)
    /\ pc' = [Notify(pc, w) EXCEPT ![t] = "idle"]
    /\ fn_out' = [fn_out EXCEPT ![t] = IF out.ok THEN "ok" ELSE "raise"]
    /\ ret' = [ret EXCEPT ![t] = IF out.ok THEN "returned" ELSE "raised"]
    /\ UNCHANGED <<now, breaker_vars, limiter_vars, cache_vars, queue,
                   request_func, op, req, client_ip, wake_at, cached_result,
                   result, fetches, calls_made>>

(* ------------------------------- time ---------------------------------- *)
\* op, req, client_ip, cached_result, fn_out, ret, result and fetches describe a thread's
\* operation while it runs and, once it has ended, until time moves on.
Kept(f, none) == [t \in Threads |-> IF pc[t] = "idle" THEN none ELSE f[t]]

AdvanceWithin(d, horizon) ==
    /\ now + d <= horizon
    /\ now' = now + d
    /\ op' = Kept(op, "none")
    /\ req' = Kept(req, NoRequest)
    /\ client_ip' = Kept(client_ip, "unknown")
    /\ cached_result' = Kept(cached_result, NoResult)
    /\ fn_out' = Kept(fn_out, "none")
    /\ ret' = Kept(ret, "none")
    /\ result' = Kept(result, NoResult)
    /\ fetches' = Kept(fetches, 0)
    /\ UNCHANGED <<breaker_vars, limiter_vars, cache_vars, gate_vars,
                   pc, wake_at, calls_made>>

Advance(d) == AdvanceWithin(d, MaxTime)

\* Time passes between requests: a rate-limiter window.
Tick == \E d \in {window_seconds} : Advance(d)

\* Time passes around the breaker's recovery timeout.
TickBreaker == \E d \in {recovery_timeout, recovery_timeout + 1} : Advance(d)

\* Time passes around the rate limiter's window.
TickLimiter ==
    \E d \in {window_seconds - 1, window_seconds} : AdvanceWithin(d, MaxLimiterTime)

\* Time passes around the cache's time to live.
TickCache ==
    \E d \in {cache_duration - 1, cache_duration} : AdvanceWithin(d, MaxCacheTime)

(* -------------------------- specifications ----------------------------- *)
\* The request handlers.
Next ==
    \/ \E t \in Threads, r \in Requests : ScrapeExecute(t, r)
    \/ \E t \in Threads, r \in Requests, id \in Clients : ScrapeCallStart(t, r, id)
    \/ \E t \in Threads : CallEnter(t)
    \/ \E t \in Threads, out \in {Raise} \cup {Return(n) : n \in 0..PageSize} :
            FnDone(t, out)
    \/ \E t \in Threads : MaintStart(t)
    \/ \E t \in Threads : MaintReset(t)
    \/ \E t \in Threads : Health(t)
    \/ Tick

Spec == Init /\ [][Next]_vars

\* The scrape routine's way from the rate limiter to the fetch, with rate
\* limiters of several ceilings.
NextAdmission ==
    \/ \E t \in Threads, r \in Requests, id \in Clients : ScrapeCallStart(t, r, id)
    \/ \E t \in Threads : CallEnter(t)
    \/ \E t \in Threads, out \in {Raise} \cup {Return(n) : n \in 0..PageSize} :
            FnDone(t, out)
    \/ Tick

SpecAdmission == InitLimiter /\ [][NextAdmission]_vars

\* The circuit breaker under clients of its public methods.
NextBreaker ==
    \/ \E t \in Threads : CallStart(t)
    \/ \E t \in Threads : CallEnter(t)
    \/ \E t \in Threads, out \in {Raise, Return(0)} : FnDone(t, out)
    \/ \E t \in Threads : RecordFailure(t)
    \/ \E t \in Threads : Reset(t)
    \/ TickBreaker

SpecBreaker == Init /\ [][NextBreaker]_vars

\* The rate limiter under clients of its public methods and the
\* maintenance reset.
NextLimiter ==
    \/ \E t \in Threads, id \in Identities : IsAllowedCall(t, id)
    \/ \E t \in Threads, pct \in Rates : AdaptRateCall(t, pct)
    \/ \E t \in Threads : MaintStart(t)
    \/ \E t \in Threads : MaintReset(t)
    \/ TickLimiter

SpecLimiter == InitLimiter /\ [][NextLimiter]_vars

\* The cache under clients of its public methods.
NextCache ==
    \/ \E t \in Threads, k \in Keys : CacheGetCall(t, k)
    \/ \E t \in Threads, k \in Keys, v \in Values : CacheSetCall(t, k, v)
    \/ \E t \in Threads : CacheClearCall(t)
    \/ \E t \in Threads : GetCacheStatsCall(t)
    \/ TickCache

SpecCache == Init /\ [][NextCache]_vars

\* The scrapers' computations on what they extracted.
NextScrape ==
    \/ \E t \in Threads : ScrapeVintedData(t)
    \/ \E t \in Threads : ExecuteVestiaireScrapeCall(t)
    \/ \E t \in Threads : CacheKeyCall(t)
    \/ \E t \in Threads : VintedCacheKeyCall(t)

SpecScrape == InitScrape /\ [][NextScrape]_vars

\* The request queue under concurrent callers of add_request.
NextQueue ==
    \/ \E t \in Threads, w \in Threads \cup {NoThread} : AddRequest(t, w)
    \/ \E t \in Threads : WakeUp(t)
    \/ \E t \in Threads, out \in {Raise, Return(0)}, w \in Threads \cup {NoThread} :
            RunDone(t, out, w)

SpecQueue == Init /\ [][NextQueue]_vars

\* Fair scheduling of the callers of add_request: a notified thread gets the
\* lock again, and a request function that runs terminates.
FairQueue ==
    \A t \in Threads :
        /\ WF_vars(WakeUp(t))
        /\ WF_vars(\E out \in {Raise, Return(0)}, w \in Threads \cup {NoThread} :
                        RunDone(t, out, w))

SpecQueueFair == Init /\ [][NextQueue]_vars /\ FairQueue

(* ------------------------------ claims --------------------------------- *)
\* The step in which thread t's call takes the breaker's lock.
Enters(t) == pc[t] = "cb_call" /\ pc'[t] # "cb_call"

\* The step in which fn ends in thread t's call.
FnEnds(t) == pc[t] = "fn" /\ pc'[t] # "fn"

\* The scrape routines' results are dicts with 'products' and 'pagination'.
WellFormed(res) == {"products", "pagination"} \subseteq DOMAIN res

Scrapes == {"scrape", "scrape_execute"}

\* The fetches (_execute_vestiaire_scrape) executing now.
Fetching == {t \in Threads : op[t] = "scrape" /\ pc[t] = "fn"}

\* C1: scrape_vestiaire_data fails closed: once the guarded path has come to
\* an outcome (the fetch returned or raised, or the breaker rejected the
\* call), the routine has returned, without an exception, a result holding
\* 'products' and 'pagination'.  A scrape is either still on its way to that
\* outcome (waiting for the breaker, or fetching) or has returned.
C1_FailsClosed ==
    \A t \in Threads :
        (op[t] \in Scrapes /\ pc[t] \notin {"cb_call", "fn"})
        => (pc[t] = "idle" /\ ret[t] = "returned" /\ WellFormed(result[t]))

\* C2: a call that finds the breaker OPEN with now - last_failure_time <=
\* recovery_timeout raises the circuit-open error at once: fn is not started
\* and failure_count, last_failure_time and state stay as they were.
C2_OpenFailsFast ==
    [][\A t \in Threads :
        (Enters(t) /\ state = "OPEN"
            /\ now - last_failure_time <= recovery_timeout)
        => /\ pc'[t] = "idle"
           /\ (op[t] = "call" => ret'[t] = "CircuitOpen")
           /\ fn_out'[t] = "none"
           /\ fetches'[t] = fetches[t]
           /\ state' = state
           /\ failure_count' = failure_count
           /\ last_failure_time' = last_failure_time]_vars

\* C2 witness: a client's call ended with the circuit-open error exactly
\* recovery_timeout after the last failure.
C2_Witness ==
    \E t \in Threads :
        /\ op[t] = "call" /\ ret[t] = "CircuitOpen"
        /\ state = "OPEN"
        /\ now - last_failure_time = recovery_timeout

\* C3: counted from CLOSED with failure_count = 0, the k-th consecutive call
\* whose fn raises leaves failure_count = k; the breaker is still CLOSED while
\* k < failure_threshold and OPEN, with last_failure_time the time of that
\* failure, at k = failure_threshold.  Stated per call: a call made on a CLOSED
\* breaker whose fn raises adds one to failure_count and opens the breaker
\* exactly when the count reaches the threshold.
C3_TripsAtThreshold ==
    [][\A t \in Threads :
        (FnEnds(t) /\ fn_out'[t] = "raise" /\ state = "CLOSED")
        => /\ failure_count' = failure_count + 1
           /\ state' = IF failure_count' >= failure_threshold
                          THEN "OPEN" ELSE "CLOSED"
           /\ (state' = "OPEN" => last_failure_time' = now)]_vars

\* C4: every fetch failure through the scrape routine is counted by the
\* breaker, which is OPEN once failure_threshold consecutive ones are counted
\* (last_failure_time the time of the last); and a scrape that reaches the
\* breaker within recovery_timeout of that failure returns the fallback
\* without starting the fetch.
C4_TripsThroughScrape ==
    [][\A t \in Threads :
        /\ (FnEnds(t) /\ op[t] = "scrape" /\ fn_out'[t] = "raise"
                /\ state = "CLOSED")
            => /\ failure_count' = failure_count + 1
               /\ (failure_count' >= failure_threshold
                    => state' = "OPEN" /\ last_failure_time' = now)
        /\ (Enters(t) /\ op[t] = "scrape" /\ state = "OPEN"
                /\ now - last_failure_time <= recovery_timeout)
            => /\ result'[t] = FallbackResult(req[t])
               /\ fetches'[t] = 0]_vars

\* C5: a call that finds the breaker OPEN with now - last_failure_time >
\* recovery_timeout moves it to HALF_OPEN and starts fn; and the breaker
\* becomes HALF_OPEN in no other step: not when time passes, only from OPEN,
\* after the timeout, in the step in which a call starts fn.
C5_HalfOpenOnlyInCall ==
    [][/\ \A t \in Threads :
            (Enters(t) /\ state = "OPEN"
                /\ now - last_failure_time > recovery_timeout)
            => (state' = "HALF_OPEN" /\ pc'[t] = "fn")
       /\ (state # "HALF_OPEN" /\ state' = "HALF_OPEN")
            => /\ state = "OPEN"
               /\ now' = now
               /\ now - last_failure_time > recovery_timeout
               /\ \E t \in Threads : Enters(t) /\ pc'[t] = "fn"]_vars

\* C5 witness: the timeout has elapsed and a call has moved the breaker to
\* HALF_OPEN and is running fn.
C5_Witness ==
    \E t \in Threads :
        /\ pc[t] = "fn" /\ lock_owner = t
        /\ state = "HALF_OPEN"
        /\ now - last_failure_time > recovery_timeout

\* C6: a call made in HALF_OPEN whose fn returns leaves the breaker CLOSED
\* with failure_count = 0 and returns to its caller.
C6_HalfOpenSuccessCloses ==
    [][\A t \in Threads :
        (FnEnds(t) /\ fn_out'[t] = "ok" /\ state = "HALF_OPEN")
        => /\ state' = "CLOSED"
           /\ failure_count' = 0
           /\ ret'[t] = "returned"]_vars

\* C7: a call made in HALF_OPEN whose fn raises puts the breaker back to
\* OPEN and stamps last_failure_time, whatever failure_count is.
C7_HalfOpenFailureReopens ==
    [][\A t \in Threads :
        (FnEnds(t) /\ fn_out'[t] = "raise" /\ state = "HALF_OPEN")
        => /\ state' = "OPEN"
           /\ last_failure_time' = now]_vars

\* C8: when fn raises inside call, exactly one failure is recorded
\* (failure_count + 1, last_failure_time stamped) and the call ends by
\* raising to its caller, never by returning.
C8_FailureRecordedAndReraised ==
    [][\A t \in Threads :
        (FnEnds(t) /\ fn_out'[t] = "raise")
        => /\ failure_count' = failure_count + 1
           /\ last_failure_time' = now
           /\ (op[t] = "call" => ret'[t] = "raised")]_vars

\* C9: at no time do more than max_concurrent fetches execute.
C9_FetchesBounded == Cardinality(Fetching) <= max_concurrent

\* C9 witness: more scrapes are in flight than max_concurrent, one of them
\* is fetching and the others wait.
C9_Witness ==
    /\ Cardinality(Fetching) = 1
    /\ Cardinality({t \in Threads : op[t] = "scrape" /\ pc[t] = "cb_call"})
            >= max_concurrent

\* C10: a fetch runs only in a held slot of the gate and inside the breaker's
\* call, once per scrape: every executing fetch holds one of the
\* active_requests slots and the breaker's lock, and is its scrape's first.
C10_FetchInsideGateAndBreaker ==
    /\ Cardinality(Fetching) <= active_requests
    /\ \A t \in Fetching : lock_owner = t /\ fetches[t] = 1

\* The callers of add_request that hold a slot: request_func is running.
Running == {t \in Threads : pc[t] = "q_run"}

\* C11: add_request always gives its slot back: when request_func ends, by
\* returning or by raising, active_requests goes down by exactly one, the
\* caller is through and one waiting thread, if there is any, is notified;
\* active_requests counts the callers whose request_func is running, so each
\* call leaves it where it found it, and it stays within 0..max_concurrent.
C11_SlotAlwaysReleased ==
    /\ [](/\ 0 <= active_requests
          /\ active_requests <= max_concurrent
          /\ active_requests = Cardinality(Running))
    /\ [][\A t \in Threads :
            (pc[t] = "q_run" /\ pc'[t] # "q_run")
            => /\ active_requests' = active_requests - 1
               /\ pc'[t] = "idle"
               /\ fn_out'[t] \in {"ok", "raise"}
               /\ (Waiting # {} =>
                     \E w \in Waiting :
                        /\ pc'[w] = "q_woken"
                        /\ \A u \in Waiting \ {w} : pc'[u] = "q_wait")]_vars

\* C11 witness: with every slot taken and a caller waiting, a request
\* function raised; its caller is through, the slot is free and the waiting
\* caller has been notified.
C11_Witness ==
    \E t, u \in Threads :
        /\ op[t] = "add_request" /\ pc[t] = "idle" /\ ret[t] = "raised"
        /\ pc[u] = "q_woken"
        /\ active_requests = max_concurrent - 1

\* The step in which thread t takes up a new operation.
Starts(t) ==
    /\ pc[t] = "idle"
    /\ \A u \in Threads : u < t => pc[u] # "idle"
    /\ calls_made' = calls_made + 1

\* C12: two identical requests made one after the other within the cache's
\* TTL get the same result, and the fetch runs exactly once for the two: the
\* first request, which missed the cache, fetched once (whether the fetch
\* succeeded or it fell back), the second is served from the cache.
C12_IdempotentWithinTTL ==
    [][\A t \in Threads :
        (/\ Starts(t) /\ op'[t] \in Scrapes
         /\ op[t] \in Scrapes /\ ret[t] = "returned"
         /\ cached_result[t] = NoResult
         /\ req'[t] = req[t]
         /\ cache_key(req[t]) \in DOMAIN cache)
        => /\ pc'[t] = "idle"
           /\ result'[t] = result[t]
           /\ fetches[t] + fetches'[t] = 1]_vars

\* C13: a scrape that finds a fresh entry under its key returns the entry's
\* data in that step, without a fetch, and leaves the rate limiter's windows
\* and limit, the breaker and the gate as they were.
C13_CacheHitIsFree ==
    [][\A t \in Threads, r \in Requests :
        (/\ Starts(t) /\ op'[t] \in Scrapes /\ req'[t] = r
         /\ cache_key(r) \in DOMAIN cache
         /\ now - cache[cache_key(r)].timestamp < cache_duration)
        => /\ pc'[t] = "idle" /\ ret'[t] = "returned"
           /\ result'[t] = cache[cache_key(r)].data
           /\ fetches'[t] = 0
           /\ requests' = requests
           /\ current_limit' = current_limit
           /\ state' = state /\ failure_count' = failure_count
           /\ lock_owner' = lock_owner
           /\ active_requests' = active_requests]_vars

\* C13 witness: a scrape through the routine with the rate limiter was
\* served from the cache while another thread held the breaker.
C13_Witness ==
    \E t \in Threads :
        /\ op[t] = "scrape" /\ pc[t] = "idle" /\ ret[t] = "returned"
        /\ cached_result[t] # NoResult /\ result[t] = cached_result[t]
        /\ fetches[t] = 0
        /\ lock_owner \notin {NoThread, t}

\* C19: when the fetch fails, the scrape answers with the placeholder
\* records: a non-empty set, a pagination block whose total_items is the
\* number of placeholder records, and a non-null error (warning) field in
\* the response.  Stated of every scrape that missed the cache and whose
\* guarded path has failed (the fetch raised; for MyHandler's routine, the
\* try block raised).
C19_FallbackShape ==
    \A t \in Threads :
        (/\ op[t] \in Scrapes /\ cached_result[t] = NoResult
         /\ pc[t] \notin {"cb_call", "fn"}
         /\ (op[t] = "scrape" => fn_out[t] = "raise"))
        => /\ pc[t] = "idle" /\ ret[t] = "returned"
           /\ WellFormed(result[t])
           /\ result[t].source = "sample"
           /\ result[t].products > 0
           /\ result[t].pagination.total_items = result[t].products
           /\ Response(result[t]).error # "None"

\* C20: every failure of the guarded path (the fetch raised, the breaker
\* rejected the call, or the try block raised otherwise) is followed, in the
\* routine, by adapt_rate(0.0) and by the fallback being cached under the
\* request's key and returned; and a request that finds that entry fresh
\* returns it without the breaker or the fetch.
C20_FailureAdaptsAndCachesFallback ==
    [][\A t \in Threads :
        /\ (\/ (FnEnds(t) /\ op[t] = "scrape" /\ fn_out'[t] = "raise")
            \/ (Enters(t) /\ op[t] = "scrape" /\ pc'[t] # "fn")
            \/ (Starts(t) /\ op'[t] = "scrape_execute"
                    /\ cached_result'[t] = NoResult))
            => /\ pc'[t] = "idle" /\ ret'[t] = "returned"
               /\ current_limit' = AdaptRate(current_limit, 0)
               /\ result'[t].source = "sample"
               /\ cache_key(req'[t]) \in DOMAIN cache'
               /\ cache'[cache_key(req'[t])] =
                     [data |-> result'[t], timestamp |-> now]
        /\ (/\ Starts(t) /\ op'[t] \in Scrapes
            /\ cache_key(req'[t]) \in DOMAIN cache
            /\ now - cache[cache_key(req'[t])].timestamp < cache_duration)
            => /\ result'[t] = cache[cache_key(req'[t])].data
               /\ pc'[t] = "idle" /\ fetches'[t] = 0
               /\ lock_owner' = lock_owner]_vars

\* C14: is_allowed(id) drops id's timestamps that are 60 seconds old or
\* older; if fewer than current_limit remain it returns True and appends the
\* current time, otherwise it returns False and appends nothing.  Other
\* identities' windows and the limit stay as they were.
C14_IsAllowedPrunesThenAdmits ==
    [][\A t \in Threads, id \in Identities :
        (Starts(t) /\ op'[t] = "is_allowed" /\ client_ip'[t] = id)
        => LET old == IF id \in DOMAIN requests THEN requests[id] ELSE <<>>
               kept == SelectSeq(old, LAMBDA x : now - x < 60)
           IN  /\ id \in DOMAIN requests'
               /\ IF Len(kept) < current_limit
                    THEN ret'[t] = "True" /\ requests'[id] = Append(kept, now)
                    ELSE ret'[t] = "False" /\ requests'[id] = kept
               /\ \A x \in DOMAIN requests \ {id} : requests'[x] = requests[x]
               /\ current_limit' = current_limit]_vars

\* C14 witness: a request made exactly 60 seconds after the identity's
\* earlier ones was admitted into a window holding only itself, and the
\* next request found the window full and was refused.
C14_Witness ==
    \E t \in Threads :
        /\ op[t] = "is_allowed" /\ ret[t] = "False"
        /\ now >= window_seconds
        /\ requests[client_ip[t]] = <<now>>
        /\ current_limit = 1

\* C15: whatever ceiling the limiter is built with and whatever adapt_rate
\* calls and maintenance resets follow, min_limit <= current_limit <=
\* max_requests.
C15_LimitWithinFloorAndCeiling ==
    min_limit <= current_limit /\ current_limit <= max_requests

\* C16 as stated: adapt_rate raises the limit to min(ceiling, floor(limit *
\* 1.2)) for every success rate of 0.8 or more, lowers it only for a rate
\* below 0.5 and leaves it alone for every other rate.
C16_RaisesFromEighty ==
    [][\A t \in Threads :
        (Starts(t) /\ op'[t] = "adapt_rate")
        => LET pct == result'[t].success_rate
               raised == IF max_requests <= (current_limit * 6) \div 5
                            THEN max_requests ELSE (current_limit * 6) \div 5
           IN  /\ pct >= 80 => current_limit' = raised
               /\ current_limit' < current_limit => pct < 50
               /\ (pct >= 50 /\ pct < 80) => current_limit' = current_limit]_vars

\* C16 amended: adapt_rate sets the limit to min(ceiling, floor(limit * 1.2))
\* for every success rate above 0.8, lowers a limit that is within the
\* ceiling only for a rate below 0.5, and leaves the limit alone for every
\* other rate, 0.8 itself included.
C16_RaisesAboveEighty ==
    [][\A t \in Threads :
        (Starts(t) /\ op'[t] = "adapt_rate")
        => LET pct == result'[t].success_rate
               raised == IF max_requests <= (current_limit * 6) \div 5
                            THEN max_requests ELSE (current_limit * 6) \div 5
           IN  /\ pct > 80 => current_limit' = raised
               /\ (current_limit <= max_requests /\ current_limit' < current_limit)
                    => pct < 50
               /\ (pct >= 50 /\ pct <= 80) => current_limit' = current_limit]_vars

\* C16 witness: adapt_rate(0.8) was called on a limit that a raise would
\* have lifted, and the limit is what it was.
C16_Witness ==
    \E t \in Threads :
        /\ op[t] = "adapt_rate" /\ pc[t] = "idle"
        /\ result[t] = [success_rate |-> 80]
        /\ current_limit < max_requests
        /\ (current_limit * 6) \div 5 > current_limit

\* C17: get(key) returns the stored value exactly when there is an entry
\* for key with now - timestamp < cache_duration, and counts a hit; if the
\* entry is there but expired get deletes it; without a fresh entry get
\* counts a miss and returns None.  So no value stored cache_duration or
\* more ago is ever returned.
C17_GetServesOnlyFresh ==
    [][\A t \in Threads, k \in Keys :
        (Starts(t) /\ op'[t] = "cache_get" /\ result'[t] = [key |-> k])
        => IF k \in DOMAIN cache /\ now - cache[k].timestamp < cache_duration
             THEN /\ cached_result'[t] = cache[k].data
                  /\ cache' = cache
                  /\ k \in DOMAIN hit_count'
                  /\ hit_count'[k] = Count(hit_count, k) + 1
                  /\ miss_count' = miss_count
             ELSE /\ cached_result'[t] = NoResult
                  /\ DOMAIN cache' = DOMAIN cache \ {k}
                  /\ \A x \in DOMAIN cache' : cache'[x] = cache[x]
                  /\ k \in DOMAIN miss_count'
                  /\ miss_count'[k] = Count(miss_count, k) + 1
                  /\ hit_count' = hit_count]_vars

\* C17 witness: an entry that had been served was asked for again exactly
\* cache_duration after it was stored: the get returned None, counted a miss
\* and the entry is gone.
C17_Witness ==
    \E t \in Threads, k \in Keys :
        /\ op[t] = "cache_get" /\ result[t] = [key |-> k]
        /\ cached_result[t] = NoResult
        /\ now = cache_duration
        /\ k \notin DOMAIN cache
        /\ Count(hit_count, k) >= 1 /\ Count(miss_count, k) = 1

Finished(t, o) == op[t] = o /\ pc[t] = "idle"

\* The records of all_data at the indices [from, to).
AtIndices(all_data, from, to) ==
    [k \in 1..Max(to - from, 0) |-> all_data[from + k]]

\* The price of item lies within the bounds r gives.
WithinBounds(item, r) ==
    /\ PriceValue(item.Price) # NoPrice
    /\ (r.min_price # None => FloatOf(r.min_price) <= PriceValue(item.Price))
    /\ (r.max_price # None => PriceValue(item.Price) <= FloatOf(r.max_price))

\* The records the request's price bounds leave of those extracted.
Remaining(t) ==
    IF req[t].min_price = None /\ req[t].max_price = None
        THEN result[t].extracted
        ELSE SelectSeq(result[t].extracted, LAMBDA item : WithinBounds(item, req[t]))

\* C21: for every page and page size over N records, scrape_vinted_data
\* returns exactly the records at the indices
\* [(page-1)*pageSize, min(page*pageSize, N)), and has_more is true iff
\* page*pageSize < total.
C21_PageSlice ==
    \A t \in Threads :
        Finished(t, "scrape_vinted")
        => /\ ret[t] = "returned"
           /\ result[t].out.products =
                AtIndices(Remaining(t),
                          (req[t].page_number - 1) * req[t].items_per_page,
                          Min(req[t].page_number * req[t].items_per_page,
                              Len(Remaining(t))))
           /\ result[t].out.pagination.has_more
                = (req[t].page_number * req[t].items_per_page
                        < result[t].out.pagination.total_items)

\* C22: the total a returned page reports is the raw total when that lies
\* outside the band 85..100, and inside the band the nearer of 90 and 96;
\* stabilizing the reported total again gives the same total.
C22_SnapsToNearest ==
    \A t \in Threads :
        (Finished(t, "scrape_vinted") /\ ret[t] = "returned")
        => LET n == Len(Remaining(t))
               total == result[t].out.pagination.total_items
               Distance(a, b) == IF a < b THEN b - a ELSE a - b
           IN  /\ n \notin 85..100 => total = n
               /\ n \in 85..100
                    => /\ total \in {90, 96}
                       /\ Distance(n, total) <= Distance(n, 90)
                       /\ Distance(n, total) <= Distance(n, 96)
               /\ StableTotal(total) = total

\* C23: with min_price and/or max_price given, every scraper returns only
\* records whose price lies within the bounds given, and total_items counts
\* the records within the bounds, not those extracted.
C23_PriceFilter ==
    \A t \in Threads :
        /\ (Finished(t, "scrape_vinted") /\ ret[t] = "returned")
            => /\ \A i \in 1..Len(result[t].out.products) :
                    \/ req[t].min_price = None /\ req[t].max_price = None
                    \/ WithinBounds(result[t].out.products[i], req[t])
               /\ result[t].out.pagination.total_items
                    = StableTotal(Len(Remaining(t)))
        /\ (Finished(t, "execute_vestiaire_scrape") /\ ret[t] = "returned")
            => /\ \A i \in 1..Len(result[t].out.products) :
                    \/ req[t].min_price = None /\ req[t].max_price = None
                    \/ WithinBounds(result[t].out.products[i], req[t])
               /\ result[t].out.pagination.total_items
                    <= Len(Remaining(t))

\* C24: a request whose start index (page-1)*pageSize exceeds the stabilized
\* total gets an empty record list with has_more false, and no error.
C24_BeyondTotalIsEmpty ==
    \A t \in Threads :
        (/\ Finished(t, "scrape_vinted")
         /\ (req[t].page_number - 1) * req[t].items_per_page
                > StableTotal(Len(Remaining(t))))
        => /\ ret[t] = "returned"
           /\ result[t].out.products = <<>>
           /\ ~result[t].out.pagination.has_more

\* C25: a scraper that extracted zero records without raising returns the
\* empty record set with its real pagination (no items, no further page).
C25_ZeroRecordsIsNotFailure ==
    \A t \in Threads :
        (/\ Finished(t, "scrape_vinted") \/ Finished(t, "execute_vestiaire_scrape")
         /\ result[t].extracted = <<>>)
        => /\ ret[t] = "returned"
           /\ result[t].out.products = <<>>
           /\ result[t].out.pagination.total_items = 0
           /\ ~result[t].out.pagination.has_more

\* C26: two requests get the same cache key exactly when they agree in
\* search text, page, page size, country, min price and max price.
C26_KeyInjective ==
    \A t \in Threads, u \in Threads :
        \A o \in {"cache_key", "vinted_cache_key"} :
            (Finished(t, o) /\ Finished(u, o))
            => ((result[t].out.key = result[u].out.key) <=> (req[t] = req[u]))

(* ---------------------- maintenance and health ------------------------- *)
\* Thread u holds the breaker's lock and waits for that same lock inside
\* call: the lock is never released.
HoldsLockForever(u) ==
    lock_owner = u /\ pc[u] \in {"cb_reset", "cb_record_failure"}

\* C27: the maintenance reset, from any reachable state, completes: it
\* empties the cache and the hit and miss counters and puts current_limit
\* back to the ceiling, it never waits for a lock that is never released,
\* and when it returns it leaves the breaker CLOSED with failure_count 0.
C27_MaintenanceResetCompletes ==
    /\ [](\A t \in Threads :
            pc[t] = "maint_reset" => ~\E u \in Threads : HoldsLockForever(u))
    /\ [][\A t \in Threads :
            /\ (Starts(t) /\ op'[t] = "cache_clear")
                => /\ cache' = EmptyMap
                   /\ hit_count' = EmptyMap /\ miss_count' = EmptyMap
                   /\ current_limit' = max_requests
            /\ (pc[t] = "maint_reset" /\ pc'[t] = "idle")
                => /\ ret'[t] = "returned"
                   /\ state' = "CLOSED" /\ failure_count' = 0]_vars

\* C28: get_cache_stats and the health snapshot are read-only: a /health
\* request leaves the cache entries, the hit and miss counters, the rate
\* limiter and the breaker (and the gate, the clock and every other caller)
\* as they were; it reports what the components hold and nothing but the
\* answer to its caller comes of it.
C28_HealthIsReadOnly ==
    [][\A t \in Threads :
        (Starts(t) /\ op'[t] = "health")
        => /\ UNCHANGED <<cache_vars, limiter_vars, breaker_vars, gate_vars,
                          now, pc, wake_at>>
           /\ ret'[t] = "returned"
           /\ result'[t].cache_stats.cached_items = Cardinality(DOMAIN cache)
           /\ result'[t].circuit_breaker.state = state
           /\ result'[t].rate_limiter.current_limit = current_limit
           /\ \A u \in Threads \ {t} :
                /\ op'[u] = op[u] /\ req'[u] = req[u] /\ ret'[u] = ret[u]
                /\ result'[u] = result[u] /\ fetches'[u] = fetches[u]]_vars

\* A snapshot taken of a cache that holds an entry and has counted a miss,
\* while another caller is inside the breaker.
C28_Witness ==
    \E t \in Threads :
        /\ Finished(t, "health") /\ ret[t] = "returned"
        /\ result[t].cache_stats.cached_items > 0
        /\ result[t].cache_stats.total_misses > 0
        /\ miss_count # EmptyMap
        /\ result[t].rate_limiter.current_limit < max_requests
        /\ lock_owner \in Threads \ {t}

(* --------------------- the breaker's failure count --------------------- *)
\* C29 as stated: every step that enters CLOSED sets failure_count to 0, and
\* no step resets failure_count but one that enters CLOSED from another
\* state.
C29_ResetOnlyOnTransition ==
    [][/\ (state # "CLOSED" /\ state' = "CLOSED") => failure_count' = 0
       /\ (failure_count > 0 /\ failure_count' = 0)
            => (state # "CLOSED" /\ state' = "CLOSED")]_vars

\* C29, amended: every step that enters CLOSED sets failure_count to 0, and
\* every step that resets failure_count leaves the breaker CLOSED, whether
\* it was OPEN, HALF_OPEN or CLOSED before; failure_count changes in no
\* other way than by a reset to 0 or a recorded failure's + 1.
C29_ResetLeavesClosed ==
    [][/\ (state # "CLOSED" /\ state' = "CLOSED") => failure_count' = 0
       /\ (failure_count > 0 /\ failure_count' = 0) => state' = "CLOSED"
       /\ failure_count' \in {failure_count, failure_count + 1, 0}]_vars

\* reset() has cleared the one failure counted by a breaker that never left
\* CLOSED.
C29_Witness ==
    \E t \in Threads :
        /\ Finished(t, "reset") /\ ret[t] = "returned"
        /\ calls_made = 2
        /\ last_failure_time # NoTime
        /\ state = "CLOSED" /\ failure_count = 0

(* ------------------------- concurrent misses --------------------------- *)
\* Callers t and u have both missed the cache on the same key and are on
\* their way through the breaker.
BothMissed(t, u) ==
    /\ t # u
    /\ op[t] = "scrape" /\ op[u] = "scrape"
    /\ cache_key(req[t]) = cache_key(req[u])
    /\ cached_result[t] = NoResult /\ cached_result[u] = NoResult
    /\ pc[t] # "idle" /\ pc[u] # "idle"

\* C30: concurrent misses on one key are not deduplicated, both callers
\* fetch: when the fetch of one ends while the other, having missed too,
\* waits to enter the breaker, the first completes, writes its result under
\* the key and leaves the breaker free for the second caller's fetch.
C30_BothMissersFetch ==
    [][\A t \in Threads, u \in Threads :
        (BothMissed(t, u) /\ FnEnds(t) /\ pc[u] = "cb_call")
        => /\ pc'[t] = "idle"
           /\ cache_key(req[t]) \in DOMAIN cache'
           /\ lock_owner' = NoThread]_vars

(* --------------------------- single trial ------------------------------ *)
\* The calls that are executing fn.
InFn == {t \in Threads : pc[t] = "fn"}

\* C31: while the breaker is HALF_OPEN at most one call is executing fn, and
\* that call holds the breaker's lock; no call starts fn while another one
\* executes it, nor finds the breaker HALF_OPEN when it starts: a second
\* call runs fn only once the state has moved to CLOSED or OPEN.
C31_SingleTrial ==
    /\ [](state = "HALF_OPEN"
            => /\ Cardinality(InFn) <= 1
               /\ \A t \in InFn : lock_owner = t)
    /\ [][\A t \in Threads :
            (Enters(t) /\ pc'[t] = "fn")
            => /\ InFn = {}
               /\ state \in {"CLOSED", "OPEN"}]_vars

\* The trial call executes fn in HALF_OPEN while a second call, made
\* meanwhile, waits to enter the breaker.
C31_Witness ==
    \E t \in Threads, u \in Threads :
        /\ t # u
        /\ state = "HALF_OPEN"
        /\ pc[t] = "fn" /\ lock_owner = t
        /\ op[u] = "call" /\ pc[u] = "cb_call" /\ now >= wake_at[u]

(* ------------------------ one adapt per request ------------------------ *)
\* C32: each scrape request adapts the rate limiter at most once: with 1.0
\* in the step in which its fetch ends successfully, the result being cached
\* and returned; with 0.0 in the step in which its guarded path fails; and
\* not at all when it is served from the cache, nor in any other step.
C32_AdaptsOncePerRequest ==
    [][\A t \in Threads :
        /\ (FnEnds(t) /\ op[t] = "scrape" /\ fn_out'[t] = "ok")
            => /\ current_limit' = AdaptRate(current_limit, 100)
               /\ cache_key(req[t]) \in DOMAIN cache'
               /\ pc'[t] = "idle" /\ ret'[t] = "returned"
        /\ (\/ (FnEnds(t) /\ op[t] = "scrape" /\ fn_out'[t] = "raise")
            \/ (Enters(t) /\ op[t] = "scrape" /\ pc'[t] # "fn")
            \/ (Starts(t) /\ op'[t] = "scrape_execute"
                    /\ cached_result'[t] = NoResult))
            => /\ current_limit' = AdaptRate(current_limit, 0)
               /\ pc'[t] = "idle" /\ ret'[t] = "returned"
        /\ (\/ (Starts(t) /\ op'[t] \in Scrapes /\ cached_result'[t] # NoResult)
            \/ (Starts(t) /\ op'[t] = "scrape")
            \/ (Enters(t) /\ op[t] = "scrape" /\ pc'[t] = "fn"))
            => current_limit' = current_limit]_vars

(* ------------------------- call always completes ----------------------- *)
\* C33: CircuitBreaker.call always completes: in the step in which fn ends,
\* by returning or by raising, call is through and the breaker's lock is
\* free; no thread ever waits for the lock it holds itself.
C33_CallCompletes ==
    /\ [](\A u \in Threads : ~HoldsLockForever(u))
    /\ [][\A t \in Threads :
            FnEnds(t) => (pc'[t] = "idle" /\ lock_owner' = NoThread)]_vars

(* ------------------------ the queue's functions ------------------------ *)
\* C34: under any interleaving, add_request executes the caller's own
\* function: a caller that runs a request function runs the one it
\* submitted, and the function of a caller that still waits is in the queue.
C34_RunsOwnFunction ==
    \A t \in Threads :
        /\ pc[t] = "q_run" => request_func[t] = t
        /\ pc[t] \in {"q_wait", "q_woken"}
            => \E i \in 1..Len(queue) : queue[i] = t

(* --------------------------- gate liveness ----------------------------- *)
\* C35: with callers whose request functions terminate, under fair
\* scheduling every add_request obtains a slot and returns; no wake-up is
\* lost: whenever a caller waits while a slot is free, a notified caller is
\* on its way to the slot, and while any caller waits or is notified some
\* request function is yet to end or some notified caller yet to go on.
C35_GateLiveness ==
    /\ [](\A t \in Threads :
            (pc[t] = "q_wait" /\ active_requests < max_concurrent)
            => \E u \in Threads : pc[u] = "q_woken")
    /\ \A t \in Threads :
        /\ (pc[t] \in {"q_wait", "q_woken"}) ~> (pc[t] = "q_run")
        /\ (pc[t] = "q_run") ~> (pc[t] = "idle" /\ ret[t] \in {"returned", "raised"})

\* A caller that had to wait has been notified by a release and finds a slot
\* free.
C35_Witness ==
    \E t \in Threads :
        /\ pc[t] = "q_woken"
        /\ active_requests < max_concurrent
        /\ calls_made > max_concurrent

(* ------------------------ the breaker's states ------------------------- *)
\* C36: in every reachable state of the breaker, OPEN implies
\* failure_count >= failure_threshold and a last_failure_time that is set,
\* CLOSED implies failure_count < failure_threshold, and failure_count >= 0.
C36_BreakerStateInvariant ==
    /\ state \in {"CLOSED", "OPEN", "HALF_OPEN"}
    /\ state = "OPEN"
        => (failure_count >= failure_threshold /\ last_failure_time # NoTime)
    /\ state = "CLOSED" => failure_count < failure_threshold
    /\ failure_count >= 0

\* The breaker is OPEN and has counted a failure beyond the threshold.
C36_Witness ==
    /\ state = "OPEN"
    /\ failure_count > failure_threshold
    /\ last_failure_time # NoTime

(* ----------------------- fetches and admissions ------------------------ *)
\* rate_limiter.is_allowed(client_ip) returned True for thread t's request:
\* the request does not sleep.
WasAllowed(t) == wake_at[t] = 0

C38_SuccessesRestoreCeiling ==
    [][\A t \in Threads :
        (Starts(t) /\ op'[t] = "adapt_rate" /\ result'[t] = [success_rate |-> 100])
        => /\ current_limit < max_requests
                => (current_limit < current_limit' /\ current_limit' <= max_requests)
           /\ current_limit >= max_requests => current_limit' = max_requests]_vars

\* adapt_rate(1.0) has raised a limit that had been backed off, and the
\* limit is still below the ceiling.
C38_Witness ==
    \E t \in Threads :
        /\ Finished(t, "adapt_rate")
        /\ result[t] = [success_rate |-> 100]
        /\ min_limit < current_limit /\ current_limit < max_requests
        /\ \E below \in min_limit..(current_limit - 1) :
                AdaptRate(below, 100) = current_limit

(* --------------------------- cache statistics -------------------------- *)
\* C39: over any sequence of get, set and clear, total_hits + total_misses
\* is the number of get calls since the last clear: every get adds one to
\* exactly one of the two totals, set and the passing of time leave both,
\* clear zeroes both; and get_cache_stats reports these totals, the number
\* of stored entries as cached_items, and total_hits / (total_hits +
\* total_misses) as hit_rate, 0 when no get was counted.
C39_StatsCountGets ==
    [][LET hits == SumValues(hit_count)
           misses == SumValues(miss_count)
           hitsAfter == SumValues(hit_count')
           missesAfter == SumValues(miss_count')
       IN  /\ \A t \in Threads :
                /\ (Starts(t) /\ op'[t] = "cache_get")
                    => \/ hitsAfter = hits + 1 /\ missesAfter = misses
                       \/ hitsAfter = hits /\ missesAfter = misses + 1
                /\ (Starts(t) /\ op'[t] = "cache_set")
                    => (hitsAfter = hits /\ missesAfter = misses)
                /\ (Starts(t) /\ op'[t] = "cache_clear_call")
                    => (hitsAfter = 0 /\ missesAfter = 0 /\ cache' = EmptyMap)
                /\ (Starts(t) /\ op'[t] = "get_cache_stats")
                    => LET stats == result'[t]
                           total == hits + misses
                       IN  /\ UNCHANGED cache_vars
                           /\ stats.total_hits = hits
                           /\ stats.total_misses = misses
                           /\ stats.cached_items = Cardinality(DOMAIN cache)
                           /\ total = 0 => stats.hit_rate = 0
                           /\ total > 0
                                => /\ stats.hit_rate * total <= hits * 1000
                                   /\ hits * 1000 < (stats.hit_rate + 1) * total
           /\ now' # now => (hitsAfter = hits /\ missesAfter = misses)
           /\ hitsAfter + missesAfter <= calls_made']_vars

\* The statistics of a cache that holds an entry and has counted a hit and
\* a miss.
C39_Witness ==
    \E t \in Threads :
        /\ Finished(t, "get_cache_stats")
        /\ result[t].total_hits = 1 /\ result[t].total_misses = 1
        /\ result[t].cached_items = 1
        /\ result[t].hit_rate = 500

====
